---- MODULE Spec2Model ----
(***************************************************************************)
(* Markov text generator (Node-Markov).                                    *)
(*                                                                         *)
(* Two classes named MarkovMachine are modelled: the order-1 machine       *)
(* (states are single words) and the order-2 machine (states are bigrams,  *)
(* stored as the string "w1 w2").  An instance is built from a text by its *)
(* constructor and then serves makeText calls.                             *)
(*                                                                         *)
(* JavaScript strings are sequences of one-character strings.  A value     *)
(* that may be a string, null or undefined is a tagged record.             *)
(***************************************************************************)
EXTENDS Integers, Sequences, FiniteSets, TLC

VARIABLES order, text, words, chains, pc, numWords, key, out, ret, start, sampled, cli

vars == <<order, text, words, chains, pc, numWords, key, out, ret, start, sampled, cli>>

(***************************************************************************)
(* Bounds of the model.                                                    *)
(***************************************************************************)
\* Longest generated corpus, in words.
MaxWords == 3
\* Largest explicit numWords argument of a call.
MaxNumWords == 2
\* Longest raw text given to the constructor, in characters.
MaxTextLen == 4
\* Activations of makeText that may be in progress on the one instance.
Calls == {"c1", "c2"}

\* The default of makeText's numWords parameter.
DefaultNumWords == 100

(***************************************************************************)
(* JavaScript values.                                                      *)
(***************************************************************************)
Str(s) == [t |-> "string", s |-> s]
null == [t |-> "null", s |-> <<>>]
undefined == [t |-> "undefined", s |-> <<>>]

IsStr(v) == v.t = "string"

\* ToBoolean: null, undefined and the empty string are falsy.
Truthy(v) == IsStr(v) /\ v.s # <<>>

\* JsString, as applied by the + operator to a non-string operand.
JsString(v) ==
  CASE v.t = "string" -> v.s
    [] v.t = "null" -> <<"n", "u", "l", "l">>
    [] OTHER -> <<"u", "n", "d", "e", "f", "i", "n", "e", "d">>

\* ar[i] for a 0-based index i of an array of strings: undefined out of range.
At(ar, i) == IF i + 1 \in 1..Len(ar) THEN Str(ar[i + 1]) ELSE undefined

\* a || b
Or(a, b) == IF Truthy(a) THEN a ELSE b

(***************************************************************************)
(* Strings: split and join.                                                *)
(***************************************************************************)
SP == " "
CR == "\r"
LF == "\n"

\* The character class [ \r\n] of the constructors' regular expression.
IsDelim(ch) == ch \in {SP, CR, LF}

RECURSIVE SplitLoop(_, _, _, _, _)
\* Scans s from position i (1-based); cur is the piece being read, acc the
\* pieces already cut.  A maximal run of separator characters cuts once when
\* greedy (the regular expression [..]+), every separator cuts otherwise.
SplitLoop(s, i, cur, acc, greedy) ==
  IF i > Len(s) THEN Append(acc, cur)
  ELSE IF IsDelim(s[i]) /\ (greedy \/ s[i] = SP)
       THEN IF greedy /\ i > 1 /\ IsDelim(s[i - 1])
            THEN SplitLoop(s, i + 1, cur, acc, greedy)
            ELSE SplitLoop(s, i + 1, <<>>, Append(acc, cur), greedy)
       ELSE SplitLoop(s, i + 1, Append(cur, s[i]), acc, greedy)

\* text.split(/[ \r\n]+/)
SplitRegex(s) == SplitLoop(s, 1, <<>>, <<>>, TRUE)

\* key.split(" ")
SplitSpace(s) == SplitLoop(s, 1, <<>>, <<>>, FALSE)

\* (mutant) the filter forgotten
FilterNone(ws) == ws

\* words.filter(c => c !== "")
FilterNonEmpty(ws) == SelectSeq(ws, LAMBDA c : c # <<>>)

\* The word list the constructor stores in this.words.
Tokenize(s) == FilterNonEmpty(SplitRegex(s))

\* (mutant) the two words joined with nothing between them
BigramNoSep(a, b) == a \o b

\* a + " " + b on two strings
Bigram(a, b) == a \o <<SP>> \o b

\* The string Array.prototype.join gives an element: empty for null and undefined.
JoinElem(v) == IF IsStr(v) THEN v.s ELSE <<>>

RECURSIVE JoinComma(_)
\* (mutant) out.join(), whose separator is a comma
JoinComma(ar) ==
  IF Len(ar) = 0 THEN <<>>
  ELSE IF Len(ar) = 1 THEN JoinElem(ar[1])
  ELSE JoinElem(ar[1]) \o <<",">> \o JoinComma(Tail(ar))

RECURSIVE Join(_)
\* out.join(" "): the elements in order with one space between neighbours
\* (the array is joined by halves, which keeps the recursion shallow).
Join(ar) ==
  IF Len(ar) = 0 THEN <<>>
  ELSE IF Len(ar) = 1 THEN JoinElem(ar[1])
  ELSE LET h == Len(ar) \div 2
       IN Join(SubSeq(ar, 1, h)) \o <<SP>> \o Join(SubSeq(ar, h + 1, Len(ar)))

(***************************************************************************)
(* The chains Map: entries in insertion order.                             *)
(***************************************************************************)
\* chains.has(k)
Has(ch, k) == \E j \in 1..Len(ch) : ch[j].key = k

\* chains.get(k) for a key the map has
Get(ch, k) == ch[CHOOSE j \in 1..Len(ch) : ch[j].key = k].val

\* (mutant) the followers replaced instead of extended
PushToOverwrite(ch, k, v) ==
  [j \in 1..Len(ch) |-> IF ch[j].key = k THEN [key |-> k, val |-> <<v>>] ELSE ch[j]]

\* chains.get(k).push(v)
PushTo(ch, k, v) ==
  [j \in 1..Len(ch) |-> IF ch[j].key = k
                         THEN [key |-> k, val |-> Append(ch[j].val, v)]
                         ELSE ch[j]]

\* (mutant) a new key set with no follower
SetNewEmpty(ch, k, v) == Append(ch, [key |-> k, val |-> <<>>])

\* chains.set(k, [v]) for a key the map does not have
SetNew(ch, k, v) == Append(ch, [key |-> k, val |-> <<v>>])

\* One pass of either makeChains loop body: record v as a follower of k.
Record(ch, k, v) == IF Has(ch, k) THEN PushTo(ch, k, v) ELSE SetNew(ch, k, v)


(***************************************************************************)
(* makeChains.                                                             *)
(***************************************************************************)
\* (mutant) the || null forgotten
NextWord1NoNull(ws, i) == At(ws, i + 1)

\* Order-1: let nextWord = this.words[i + 1] || null
NextWord1(ws, i) == Or(At(ws, i + 1), null)

RECURSIVE makeChains1LoopShort(_, _, _)
\* (mutant) the order-2 loop bound in the order-1 loop
makeChains1LoopShort(ws, i, ch) ==
  IF ~(i + 1 < Len(ws)) THEN ch
  ELSE makeChains1LoopShort(ws, i + 1, Record(ch, ws[i + 1], NextWord1(ws, i)))

RECURSIVE makeChains1Loop(_, _, _)
\* Order-1 loop: for (let i = 0; i < this.words.length; i += 1)
makeChains1Loop(ws, i, ch) ==
  IF ~(i < Len(ws)) THEN ch
  ELSE makeChains1Loop(ws, i + 1, Record(ch, ws[i + 1], NextWord1(ws, i)))

makeChains1(ws) == makeChains1Loop(ws, 0, <<>>)

\* (mutant) the word after the bigram taken one place early
NextWord2Early(ws, i) == Or(At(ws, i + 1), null)

\* Order-2: let nextWord = this.words[i + 2] || null
NextWord2(ws, i) == Or(At(ws, i + 2), null)

RECURSIVE makeChains2Loop(_, _, _)
\* Order-2 loop: for (let i = 0; i < this.words.length - 1; i += 1)
makeChains2Loop(ws, i, ch) ==
  IF ~(i + 1 < Len(ws)) THEN ch
  ELSE makeChains2Loop(ws, i + 1,
         Record(ch, Bigram(ws[i + 1], ws[i + 2]), NextWord2(ws, i)))

makeChains2(ws) == makeChains2Loop(ws, 0, <<>>)

makeChains(o, ws) == IF o = 1 THEN makeChains1(ws) ELSE makeChains2(ws)

(***************************************************************************)
(* choice and the walk.                                                    *)
(***************************************************************************)
\* The values choice(ar) may return for an array ar: any element, and
\* ar[0], which is undefined, when the array is empty.
choice(ar) == IF Len(ar) = 0 THEN {undefined} ELSE {ar[j] : j \in 1..Len(ar)}

\* (mutant) a choice that takes its element out of the array
AfterChoiceShift(ar) == IF Len(ar) = 0 THEN ar ELSE Tail(ar)

\* The array ar once choice(ar) has returned: choice reads ar.length and
\* one element, and writes nothing.
AfterChoice(ar) == ar

\* The map whose array under k is ar: choice is handed the map's own array,
\* not a copy, so what choice leaves in it is what the map holds.
WithVal(ch, k, ar) ==
  [j \in 1..Len(ch) |-> IF ch[j].key = k THEN [key |-> k, val |-> ar] ELSE ch[j]]

\* Array.from(this.chains.keys()) as an array of values
KeyValues(ch) == [j \in 1..Len(ch) |-> Str(ch[j].key)]

\* this.chains.get(key) is an array, and not undefined: key is a string the map has.
Hit(ch, k) == IsStr(k) /\ Has(ch, k.s)

\* (mutant) the order-1 loop test stopping one token early
LoopCond1Short(o, n, k) == Len(o) < n - 1 /\ k # null

\* (mutant) the order-1 loop test without its test for null
LoopCond1NoNull(o, n, k) == Len(o) < n

\* (mutant) the order-2 bound in the order-1 loop test
LoopCond1Inclusive(o, n, k) == Len(o) <= n /\ k # null

\* Order-1 loop test: out.length < numWords && key !== null
LoopCond1(o, n, k) == Len(o) < n /\ k # null

\* Order-2 loop test: out.length <= numWords && key !== null
LoopCond2(o, n, k) == Len(o) <= n /\ k # null

LoopCond(ord, o, n, k) == IF ord = 1 THEN LoopCond1(o, n, k) ELSE LoopCond2(o, n, k)

\* (mutant) a push that is lost
PushLost(o, v) == o

\* out.push(v)
Push(o, v) == Append(o, v)

\* Order-2: let [w1, w2] = key.split(" ")
W1(k) == At(SplitSpace(k.s), 0)
W2(k) == At(SplitSpace(k.s), 1)

\* (mutant) the next key built the wrong way round
NextKey2Swapped(w2, s) == Str(JsString(s) \o <<SP>> \o JsString(w2))

\* Order-2: w2 + " " + s
NextKey2(w2, s) == Str(JsString(w2) \o <<SP>> \o JsString(s))

(***************************************************************************)
(* The corpora.                                                            *)
(***************************************************************************)
Vocabulary == {<<"a">>, <<"b">>}

WordLists == UNION {[1..n -> Vocabulary] : n \in 0..MaxWords}

RECURSIVE JoinWords(_, _)
\* The words of ws, each followed by the separator sep (a string).
JoinWords(ws, sep) == IF Len(ws) = 0 THEN <<>> ELSE ws[1] \o sep \o JoinWords(Tail(ws), sep)

\* "the cat in the hat"
TheCatInTheHat ==
  <<"t", "h", "e", SP, "c", "a", "t", SP, "i", "n", SP, "t", "h", "e", SP, "h", "a", "t">>

\* "hello"
Hello == <<"h", "e", "l", "l", "o">>

The == <<"t", "h", "e">>
Hat == <<"h", "a", "t">>

\* "null null null": a corpus whose words read like the rendering of null.
NullNullNull ==
  <<"n", "u", "l", "l", CR, LF, "n", "u", "l", "l", SP, SP, "n", "u", "l", "l">>

\* "a null a": a corpus in which the rendering of null follows a word.
ANullA == <<"a", SP, "n", "u", "l", "l", SP, "a">>

\* Texts given to the constructor: words each followed by a space, then a
\* line end; and four fixed corpora.
Texts ==
  {JoinWords(ws, <<SP>>) \o <<LF>> : ws \in WordLists}
    \cup {TheCatInTheHat, Hello, NullNullNull, ANullA}

\* numWords arguments: the small explicit ones, and the default where the
\* corpus is too short for the walk length to depend on it.
NumWordsArgs(ws) ==
  IF Len(ws) <= 1 THEN 0..MaxNumWords \cup {DefaultNumWords} ELSE 0..MaxNumWords

(***************************************************************************)
(* The command-line scripts.                                               *)
(***************************************************************************)
\* The script's run.  pc: where it stands; method: its first argument;
\* outcome: what the file system or the network answered; delivered: the
\* text has been handed over; gens, errs, logs: calls of generateText,
\* console.error and console.log; exit: the exit status, -1 while running.
CliRun(m) ==
  [pc |-> "dispatch", method |-> m, outcome |-> "none", delivered |-> FALSE,
   gens |-> 0, errs |-> 0, logs |-> 0, exit |-> -1]

\* No script: the class is used as a library.
CliOff == [CliRun("none") EXCEPT !.pc = "off"]

\* The if / else if / else on method at the end of the script.
Route(m) == IF m = "file" THEN "reading" ELSE IF m = "url" THEN "fetching" ELSE "unknown"

\* (mutant) the callback without its test of err
OnReadIgnoreErr(err) == "generate"

\* The readFile callback: if (err) {...exit} else generateText(data)
OnRead(err) == IF err THEN "fail" ELSE "generate"

\* makeURLText: the catch block exits, otherwise generateText(resp.data)
OnFetch(err) == IF err THEN "fail" ELSE "generate"

\* console.error(...); process.exit(1)
Fail(r) == [r EXCEPT !.errs = @ + 1, !.exit = 1, !.pc = "exited"]

\* Texts a file or a URL delivers.
CliData == {<<>>, Hello, TheCatInTheHat}

(***************************************************************************)
(* The state machine.                                                      *)
(***************************************************************************)
\* new MarkovMachine(t), of either class; no makeText call has begun.
Init ==
  /\ order \in {1, 2}
  /\ text \in Texts
  /\ words = Tokenize(text)
  /\ chains = makeChains(order, words)
  /\ pc = [c \in Calls |-> "idle"]
  /\ numWords = [c \in Calls |-> 0]
  /\ key = [c \in Calls |-> undefined]
  /\ out = [c \in Calls |-> <<>>]
  /\ ret = [c \in Calls |-> <<>>]
  /\ start = [c \in Calls |-> undefined]
  /\ sampled = [c \in Calls |-> <<>>]
  /\ cli = CliOff

\* makeText(n) is entered: the keys are listed, a start key is chosen and
\* out is a new empty array.
Start(c) ==
  /\ pc[c] \in {"idle", "done", "threw"}
  /\ \E n \in NumWordsArgs(words), k \in choice(KeyValues(chains)) :
       /\ numWords' = [numWords EXCEPT ![c] = n]
       /\ key' = [key EXCEPT ![c] = k]
       /\ start' = [start EXCEPT ![c] = k]
  /\ pc' = [pc EXCEPT ![c] = "loop"]
  /\ out' = [out EXCEPT ![c] = <<>>]
  /\ ret' = [ret EXCEPT ![c] = <<>>]
  /\ sampled' = [sampled EXCEPT ![c] = <<>>]
  /\ UNCHANGED <<cli, order, text, words, chains>>

\* One pass of the order-1 loop body, the loop test having held:
\* out.push(key); key = choice(this.chains.get(key)).  choice throws
\* TypeError when its argument is undefined.
Iter1(c) ==
  /\ order = 1
  /\ pc[c] = "loop"
  /\ LoopCond1(out[c], numWords[c], key[c])
  /\ out' = [out EXCEPT ![c] = Push(out[c], key[c])]
  /\ IF ~Hit(chains, key[c])
     THEN /\ pc' = [pc EXCEPT ![c] = "threw"]
          /\ UNCHANGED <<key, sampled, chains>>
     ELSE /\ \E s \in choice(Get(chains, key[c].s)) :
               /\ key' = [key EXCEPT ![c] = s]
               /\ sampled' = [sampled EXCEPT ![c] = Append(sampled[c], s)]
          /\ chains' = WithVal(chains, key[c].s, AfterChoice(Get(chains, key[c].s)))
          /\ UNCHANGED pc
  /\ UNCHANGED <<cli, order, text, words, numWords, ret, start>>

\* One pass of the order-2 loop body, the loop test having held:
\* let [w1, w2] = key.split(" "); out.push(w1);
\* key = w2 + " " + choice(this.chains.get(key)).  key.split throws TypeError
\* when key is undefined, choice when its argument is.
Iter2(c) ==
  /\ order = 2
  /\ pc[c] = "loop"
  /\ LoopCond2(out[c], numWords[c], key[c])
  /\ IF ~IsStr(key[c])
     THEN /\ pc' = [pc EXCEPT ![c] = "threw"]
          /\ UNCHANGED <<key, out, sampled, chains>>
     ELSE /\ out' = [out EXCEPT ![c] = Push(out[c], W1(key[c]))]
          /\ IF ~Hit(chains, key[c])
             THEN /\ pc' = [pc EXCEPT ![c] = "threw"]
                  /\ UNCHANGED <<key, sampled, chains>>
             ELSE /\ \E s \in choice(Get(chains, key[c].s)) :
                       /\ key' = [key EXCEPT ![c] = NextKey2(W2(key[c]), s)]
                       /\ sampled' = [sampled EXCEPT ![c] = Append(sampled[c], s)]
                  /\ chains' = WithVal(chains, key[c].s, AfterChoice(Get(chains, key[c].s)))
                  /\ UNCHANGED pc
  /\ UNCHANGED <<cli, order, text, words, numWords, ret, start>>

\* The loop test fails: return out.join(" ").
Return(c) ==
  /\ pc[c] = "loop"
  /\ ~LoopCond(order, out[c], numWords[c], key[c])
  /\ ret' = [ret EXCEPT ![c] = Join(out[c])]
  /\ pc' = [pc EXCEPT ![c] = "done"]
  /\ UNCHANGED <<cli, order, text, words, chains, numWords, key, out, start, sampled>>

Next == \E c \in Calls : Start(c) \/ Iter1(c) \/ Iter2(c) \/ Return(c)

Spec == Init /\ [][Next]_vars

\* The call that runs when calls do not overlap.
Main == "c1"

\* JavaScript runs a synchronous function to its end before anything else
\* runs: one call at a time, each pass of its loop followed by the next.
NextSync == Start(Main) \/ Iter1(Main) \/ Iter2(Main) \/ Return(Main)

FairSpec == Init /\ [][NextSync]_vars /\ WF_vars(Iter1(Main) \/ Iter2(Main) \/ Return(Main))

\* The characters of raw texts: two letters and the three separators.
Alphabet == {"a", "b", SP, CR, LF}

\* Every text over the alphabet, the empty one included.
RawTexts == UNION {[1..n -> Alphabet] : n \in 0..MaxTextLen}

\* new MarkovMachine(t) for a raw text t.
TokInit ==
  /\ order \in {1, 2}
  /\ text \in RawTexts
  /\ words = Tokenize(text)
  /\ chains = makeChains(order, words)
  /\ pc = [c \in Calls |-> "idle"]
  /\ numWords = [c \in Calls |-> 0]
  /\ key = [c \in Calls |-> undefined]
  /\ out = [c \in Calls |-> <<>>]
  /\ ret = [c \in Calls |-> <<>>]
  /\ start = [c \in Calls |-> undefined]
  /\ sampled = [c \in Calls |-> <<>>]
  /\ cli = CliOff

\* Machines built from raw texts, serving one call at a time.
TokSpec == TokInit /\ [][NextSync]_vars

\* The script starts: node script.js <method> <path>, with the class of
\* either order behind require; no machine exists yet.
CliInit ==
  /\ order \in {1, 2}
  /\ cli \in {CliRun(m) : m \in {"file", "url", "other"}}
  /\ text = <<>>
  /\ words = <<>>
  /\ chains = <<>>
  /\ pc = [c \in Calls |-> "idle"]
  /\ numWords = [c \in Calls |-> 0]
  /\ key = [c \in Calls |-> undefined]
  /\ out = [c \in Calls |-> <<>>]
  /\ ret = [c \in Calls |-> <<>>]
  /\ start = [c \in Calls |-> undefined]
  /\ sampled = [c \in Calls |-> <<>>]

\* The dispatch on method: makeText(path), makeURLText(path), or the
\* report of an unknown method and exit.
Dispatch ==
  /\ cli.pc = "dispatch"
  /\ cli' = IF Route(cli.method) = "unknown"
            THEN Fail([cli EXCEPT !.outcome = "badmethod"])
            ELSE [cli EXCEPT !.pc = Route(cli.method)]
  /\ UNCHANGED <<order, text, words, chains, pc, numWords, key, out, ret, start, sampled>>

\* generateText(data) up to the loop of makeText: new MarkovMachine(data),
\* then mm.makeText() with the default numWords.
GenerateText(r, data) ==
  /\ text' = data
  /\ words' = Tokenize(data)
  /\ chains' = makeChains(order, Tokenize(data))
  /\ \E k \in choice(KeyValues(makeChains(order, Tokenize(data)))) :
       /\ key' = [key EXCEPT ![Main] = k]
       /\ start' = [start EXCEPT ![Main] = k]
  /\ numWords' = [numWords EXCEPT ![Main] = DefaultNumWords]
  /\ pc' = [pc EXCEPT ![Main] = "loop"]
  /\ out' = [out EXCEPT ![Main] = <<>>]
  /\ ret' = [ret EXCEPT ![Main] = <<>>]
  /\ sampled' = [sampled EXCEPT ![Main] = <<>>]
  /\ cli' = [r EXCEPT !.pc = "generating", !.gens = @ + 1]
  /\ UNCHANGED order

\* What a settled read or fetch leads to: the failure branch, or generateText.
Settle(err, data, branch) ==
  LET r == [cli EXCEPT !.outcome = IF err THEN "ioerr" ELSE "ok", !.delivered = ~err]
  IN IF branch = "fail"
     THEN /\ cli' = Fail(r)
          /\ UNCHANGED <<order, text, words, chains, pc, numWords, key, out, ret,
                         start, sampled>>
     ELSE GenerateText(r, data)

\* fs.readFile calls back, with an error or with the data.
FileCallback ==
  /\ cli.pc = "reading"
  /\ \E err \in BOOLEAN, data \in CliData : Settle(err, data, OnRead(err))

\* await axios.get(url) settles, by rejecting or with a response.
UrlResponse ==
  /\ cli.pc = "fetching"
  /\ \E err \in BOOLEAN, data \in CliData : Settle(err, data, OnFetch(err))

\* makeText has returned: console.log(...), and the script has nothing left to do.
PrintText ==
  /\ cli.pc = "generating"
  /\ pc[Main] = "done"
  /\ cli' = [cli EXCEPT !.logs = @ + 1, !.exit = 0, !.pc = "exited"]
  /\ UNCHANGED <<order, text, words, chains, pc, numWords, key, out, ret, start, sampled>>

\* makeText has thrown and nothing catches it.  In the readFile callback
\* the process ends with status 1; in the async function the promise
\* rejects unhandled, which ends the process with 1 or only warns (exit 0),
\* by the version of Node.
Uncaught ==
  /\ cli.pc = "generating"
  /\ pc[Main] = "threw"
  /\ \E x \in (IF cli.method = "url" THEN {0, 1} ELSE {1}) :
       cli' = [cli EXCEPT !.exit = x, !.pc = "exited"]
  /\ UNCHANGED <<order, text, words, chains, pc, numWords, key, out, ret, start, sampled>>

CliNext ==
  \/ Dispatch \/ FileCallback \/ UrlResponse
  \/ Iter1(Main) \/ Iter2(Main) \/ Return(Main)
  \/ PrintText \/ Uncaught

CliSpec == CliInit /\ [][CliNext]_vars

(***************************************************************************)
(* Properties.                                                             *)
(***************************************************************************)
\* The tokens of a returned string.
RetTokens(c) == Tokenize(ret[c])

EmptyTable == Len(chains) = 0

\* C1: on a machine whose table is empty, makeText raises no error and
\* returns the empty string, in both variants and for every numWords.
C1_EmptyTableReturnsEmpty ==
  \A c \in Calls :
    EmptyTable => /\ pc[c] # "threw"
                  /\ pc[c] = "done" => ret[c] = <<>>

\* C2: in the order-2 walk, once END has been sampled nothing more is
\* emitted and the call returns what was emitted; on "the cat in the hat" a
\* walk from "the hat" returns exactly "the".
C2_EndStopsWalk2 ==
  \A c \in Calls :
    order = 2 =>
      /\ (\E j \in 1..Len(sampled[c]) : sampled[c][j] = null) =>
           /\ pc[c] # "threw"
           /\ Len(out[c]) = Len(sampled[c])
           /\ sampled[c][Len(sampled[c])] = null
      /\ (text = TheCatInTheHat /\ start[c] = Str(Bigram(The, Hat))) =>
           /\ pc[c] # "threw"
           /\ pc[c] = "done" => ret[c] = The

\* C3: order-2 makeText on a non-empty table never returns more than
\* numWords tokens.
C3_Order2AtMostNumWords ==
  \A c \in Calls :
    (order = 2 /\ ~EmptyTable /\ pc[c] = "done") => Len(RetTokens(c)) <= numWords[c]

\* C4: order-1 makeText on a non-empty table never holds or returns more
\* than numWords tokens, whatever is sampled.
C4_Order1AtMostNumWords ==
  \A c \in Calls :
    (order = 1 /\ ~EmptyTable) =>
      /\ Len(out[c]) <= numWords[c]
      /\ pc[c] = "done" => Len(RetTokens(c)) <= numWords[c]

\* A finished order-1 call that returned as many tokens as it was allowed,
\* and more than one.
C4_Witness ==
  \E c \in Calls :
    /\ order = 1 /\ ~EmptyTable /\ pc[c] = "done"
    /\ numWords[c] = MaxNumWords /\ Len(RetTokens(c)) = numWords[c]


\* C5: on a non-empty table every makeText call ends, in both variants:
\* each pass of the loop that samples makes out one longer, out never
\* holds more than numWords + 1 elements, and a call in its loop leaves it
\* (by returning, or by the TypeError of C2).
C5_WalkTerminates ==
  /\ [][\A c \in Calls :
          (~EmptyTable /\ pc[c] = "loop" /\ sampled'[c] # sampled[c])
            => Len(out'[c]) = Len(out[c]) + 1]_vars
  /\ [](\A c \in Calls : ~EmptyTable => Len(out[c]) <= numWords[c] + 1)
  /\ \A c \in Calls :
       (~EmptyTable /\ pc[c] = "loop") ~> (pc[c] \in {"done", "threw"})

\* A call that went round a cycle of the table (it emitted a token twice)
\* and still returned, after numWords + 1 passes.
C5_Witness ==
  \E c \in Calls :
    /\ ~EmptyTable /\ pc[c] = "done" /\ numWords[c] >= 1
    /\ Len(out[c]) = numWords[c] + 1
    /\ \E i, j \in 1..Len(out[c]) : i < j /\ out[c][i] = out[c][j]

\* C6: in the order-1 walk, END is sampled at most once and last: nothing
\* is emitted after it, the call does not fail, the last token emitted is
\* the one END was sampled for, and the returned string ends with it; a walk
\* from a key whose only successor is END returns exactly that key when
\* numWords >= 1.
C6_EndStopsWalk1 ==
  \A c \in Calls :
    order = 1 =>
      /\ \A j \in 1..Len(sampled[c]) : sampled[c][j] = null =>
           /\ j = Len(sampled[c])
           /\ pc[c] \in {"loop", "done"}
           /\ key[c] = null
           /\ Len(out[c]) = j
           /\ \E m \in 1..Len(Get(chains, out[c][j].s)) :
                Get(chains, out[c][j].s)[m] = null
           /\ pc[c] = "done" =>
                RetTokens(c)[Len(RetTokens(c))] = out[c][j].s
      /\ (Hit(chains, start[c]) /\ Get(chains, start[c].s) = <<null>>
            /\ numWords[c] >= 1) =>
           /\ pc[c] # "threw"
           /\ pc[c] = "done" => ret[c] = start[c].s

\* "the cat in the hat", order 1: a walk from "hat" has returned "hat".
C6_Witness ==
  \E c \in Calls :
    /\ order = 1 /\ text = TheCatInTheHat /\ start[c] = Str(Hat)
    /\ numWords[c] >= 1 /\ pc[c] = "done" /\ ret[c] = Hat
    /\ sampled[c] = <<null>>

\* The positions 1..n in order.
Positions(n) == [i \in 1..n |-> i]

\* The successor the corpus shows d words after position i: END past its end.
CorpusSucc(i, d) == IF i + d <= Len(words) THEN Str(words[i + d]) ELSE null

KeySet == {chains[j].key : j \in 1..Len(chains)}

KeysDistinct ==
  \A i, j \in 1..Len(chains) : chains[i].key = chains[j].key => i = j

\* C7: the order-1 table has exactly the distinct words as keys, and the
\* successors of a key are, in corpus order, the words after each of its
\* occurrences, END after the last word; no word gives the empty table and
\* one word gives one key with [END].
C7_Chains1Correct ==
  order = 1 =>
    LET n == Len(words) IN
      /\ KeySet = {words[i] : i \in 1..n}
      /\ KeysDistinct
      /\ \A i \in 1..n :
           LET occ == SelectSeq(Positions(n), LAMBDA q : words[q] = words[i])
           IN Get(chains, words[i]) = [m \in 1..Len(occ) |-> CorpusSucc(occ[m], 1)]
      /\ n = 0 => chains = <<>>
      /\ n = 1 => chains = <<[key |-> words[1], val |-> <<null>>]>>

\* An order-1 table with a key that has two successors, one of them END.
C7_Witness ==
  /\ order = 1 /\ Len(words) = MaxWords
  /\ \E j \in 1..Len(chains) :
       /\ Len(chains[j].val) >= 2
       /\ chains[j].val[Len(chains[j].val)] = null

\* C8: the order-2 table has exactly the adjacent pairs of words as keys,
\* and the successors of a pair are, in corpus order, the words after each
\* of its occurrences, END after the last pair; fewer than two words give
\* the empty table.
C8_Chains2Correct ==
  order = 2 =>
    LET n == Len(words) IN
      /\ KeySet = {Bigram(words[i], words[i + 1]) : i \in 1..(n - 1)}
      /\ KeysDistinct
      /\ \A i \in 1..(n - 1) :
           LET occ == SelectSeq(Positions(n - 1),
                        LAMBDA q : words[q] = words[i] /\ words[q + 1] = words[i + 1])
           IN Get(chains, Bigram(words[i], words[i + 1]))
                = [m \in 1..Len(occ) |-> CorpusSucc(occ[m], 2)]
      /\ n < 2 => chains = <<>>

\* An order-2 table with a pair that occurs twice: a word and END follow it.
C8_Witness ==
  /\ order = 2 /\ Len(words) = MaxWords
  /\ \E j \in 1..Len(chains) :
       /\ Len(chains[j].val) >= 2
       /\ IsStr(chains[j].val[1])
       /\ chains[j].val[Len(chains[j].val)] = null

\* The positions at which the state k occurs in the corpus.
Occurrences(k) ==
  IF order = 1 THEN {i \in 1..Len(words) : words[i] = k}
  ELSE {i \in 1..(Len(words) - 1) : Bigram(words[i], words[i + 1]) = k}

RECURSIVE TotalEntries(_)
TotalEntries(ch) == IF Len(ch) = 0 THEN 0 ELSE Len(ch[1].val) + TotalEntries(Tail(ch))

\* The number of states of the corpus: n for order 1, n - 1 for order 2.
StateCount ==
  IF order = 1 THEN Len(words) ELSE IF Len(words) >= 2 THEN Len(words) - 1 ELSE 0

\* The key of the last state of the corpus (which has one).
LastStateKey ==
  IF order = 1 THEN words[Len(words)]
  ELSE Bigram(words[Len(words) - 1], words[Len(words)])

\* C9: every key has as many successors as its state has occurrences; the
\* table holds one entry for each state of the corpus, under at most that
\* many keys; the key of the last state has END among its successors.
C9_EntryCounts ==
  /\ \A j \in 1..Len(chains) :
       Len(chains[j].val) = Cardinality(Occurrences(chains[j].key))
  /\ TotalEntries(chains) = StateCount
  /\ Len(chains) <= StateCount
  /\ StateCount >= 1 =>
       /\ Has(chains, LastStateKey)
       /\ \E m \in 1..Len(Get(chains, LastStateKey)) : Get(chains, LastStateKey)[m] = null

\* A table with fewer keys than entries: some state occurs more than once.
C9_Witness ==
  /\ Len(words) = MaxWords
  /\ Len(chains) < StateCount
  /\ \E j \in 1..Len(chains) : Cardinality(Occurrences(chains[j].key)) >= 2

\* C10: makeText calls, in any number and interleaving, leave the word list
\* and the table as the constructor built them from the text.
C10_TableReadOnly ==
  /\ words = Tokenize(text)
  /\ chains = makeChains(order, Tokenize(text))

\* Two calls on one instance, both part-way through their walks and each
\* having sampled from the table.
C10_Witness ==
  \E c, d \in Calls :
    /\ c # d /\ ~EmptyTable
    /\ pc[c] = "loop" /\ Len(sampled[c]) >= 1
    /\ pc[d] = "loop" /\ Len(sampled[d]) >= 2


\* A character that is not one of space, carriage return and line feed.
NotWs(ch) == ch \notin {" ", "\r", "\n"}

\* The positions of s at which a maximal run of such characters begins.
RunStarts(s) ==
  SelectSeq(Positions(Len(s)), LAMBDA i : NotWs(s[i]) /\ (i = 1 \/ ~NotWs(s[i - 1])))

\* The position at which the run beginning at i ends.
RunEnd(s, i) ==
  CHOOSE j \in i..Len(s) :
    /\ \A q \in i..j : NotWs(s[q])
    /\ j = Len(s) \/ ~NotWs(s[j + 1])

\* The maximal runs of s, in their order of appearance.
MaximalRuns(s) ==
  [m \in 1..Len(RunStarts(s)) |-> SubSeq(s, RunStarts(s)[m], RunEnd(s, RunStarts(s)[m]))]

\* The tokens of the corpus, read off the text.
CorpusTokens == {MaximalRuns(text)[m] : m \in 1..Len(MaximalRuns(text))}

\* The tokens of a returned string: what its single spaces separate.
OutTokens(c) == IF ret[c] = <<>> THEN <<>> ELSE SplitSpace(ret[c])

\* C11: every token of every returned string is a token of the corpus, in
\* both variants.
C11_OutputFromCorpus ==
  \A c \in Calls :
    pc[c] = "done" =>
      \A m \in 1..Len(OutTokens(c)) : OutTokens(c)[m] \in CorpusTokens

\* An order-2 call that sampled END and returned two tokens or more.
C11_Witness ==
  \E c \in Calls :
    /\ order = 2 /\ pc[c] = "done" /\ Len(OutTokens(c)) >= 2
    /\ \E j \in 1..Len(sampled[c]) : sampled[c][j] = null

\* C12: in the order-2 walk, a pass that samples a word s from the state
\* (a, b) emits a and leaves as key the pair (b, s), which the table has.
C12_Order2Advance ==
  [][\A c \in Calls :
       (/\ order = 2 /\ pc[c] = "loop" /\ sampled'[c] # sampled[c]
        /\ IsStr(sampled'[c][Len(sampled'[c])]))
         => LET s == sampled'[c][Len(sampled'[c])].s
                at == {i \in 1..(Len(words) - 1) :
                         key[c].s = Bigram(words[i], words[i + 1])}
            IN /\ at # {}
               /\ \A i \in at :
                    /\ key'[c] = Str(Bigram(words[i + 1], s))
                    /\ out'[c] = Append(out[c], Str(words[i]))
               /\ Has(chains, key'[c].s)]_vars

\* An order-2 call whose last pass sampled a word, two passes into its walk.
C12_Witness ==
  \E c \in Calls :
    /\ order = 2 /\ pc[c] = "loop" /\ Len(sampled[c]) >= 2
    /\ IsStr(sampled[c][Len(sampled[c])])
    /\ Hit(chains, key[c])


\* C15: every key of the table has at least one successor, in every
\* reachable state, so no sample is drawn from an empty sequence.
C15_SuccessorsNonEmpty ==
  /\ \A j \in 1..Len(chains) : Len(chains[j].val) >= 1
  /\ \A c \in Calls : \A m \in 1..Len(sampled[c]) : sampled[c][m] # undefined

\* A table of two keys or more from which a finished call sampled twice.
C15_Witness ==
  /\ Len(chains) >= 2
  /\ \E c \in Calls : pc[c] = "done" /\ Len(sampled[c]) >= 2

\* C17: in the order-1 table every successor other than END is a key, and
\* on a non-empty table no pass of the walk looks up a key the table lacks.
C17_Order1SuccessorClosed ==
  order = 1 =>
    /\ \A j \in 1..Len(chains) : \A m \in 1..Len(chains[j].val) :
         chains[j].val[m] # null => Hit(chains, chains[j].val[m])
    /\ \A c \in Calls :
         ~EmptyTable =>
           /\ pc[c] # "threw"
           /\ (pc[c] = "loop" /\ key[c] # null) => Hit(chains, key[c])

\* An order-1 call one pass into its walk, about to look up the word it sampled.
C17_Witness ==
  \E c \in Calls :
    /\ order = 1 /\ pc[c] = "loop" /\ Len(sampled[c]) >= 1
    /\ key[c] # null /\ Len(out[c]) < numWords[c]

\* The words of ws at positions i, i + 1, ..., in the corpus at some place.
OccursInCorpus(ws) ==
  \E i \in 0..(Len(words) - Len(ws)) : \A m \in 1..Len(ws) : words[i + m] = ws[m]

\* C18: in a returned string every two adjacent tokens (order 1), every
\* three consecutive tokens (order 2), stand together somewhere in the corpus.
C18_MarkovProperty ==
  \A c \in Calls :
    pc[c] = "done" =>
      \A m \in 1..(Len(OutTokens(c)) - order) :
        OccursInCorpus(SubSeq(OutTokens(c), m, m + order))

\* C19: an order-1 call on a non-empty table with numWords >= 1 returns at
\* least one token, the first a key of the table, and fewer than numWords
\* only when END is a successor of the last.
C19_Order1CutOnlyByEnd ==
  \A c \in Calls :
    (order = 1 /\ ~EmptyTable /\ numWords[c] >= 1 /\ pc[c] = "done") =>
      LET T == OutTokens(c) IN
        /\ Len(T) >= 1
        /\ Has(chains, T[1])
        /\ Len(T) < numWords[c] =>
             /\ Has(chains, T[Len(T)])
             /\ \E m \in 1..Len(Get(chains, T[Len(T)])) :
                  Get(chains, T[Len(T)])[m] = null

\* An order-1 call that was allowed two tokens and returned one.
C19_Witness ==
  \E c \in Calls :
    /\ order = 1 /\ ~EmptyTable /\ pc[c] = "done"
    /\ numWords[c] = 2 /\ Len(OutTokens(c)) = 1


WordSet == {words[i] : i \in 1..Len(words)}

\* C13: over the words of a corpus, two pairs have the same key exactly
\* when they are the same pair, and splitting a key on the space gives back
\* its two words; every key of an order-2 table splits into two words that
\* join to it.
C13_KeyEncodingFaithful ==
  /\ \A x, y, u, v \in WordSet :
       (Bigram(x, y) = Bigram(u, v)) <=> (x = u /\ y = v)
  /\ \A x, y \in WordSet :
       /\ SplitSpace(Bigram(x, y)) = <<x, y>>
       /\ W1(Str(Bigram(x, y))) = Str(x)
       /\ W2(Str(Bigram(x, y))) = Str(y)
  /\ order = 2 =>
       \A j \in 1..Len(chains) :
         /\ Len(SplitSpace(chains[j].key)) = 2
         /\ Bigram(SplitSpace(chains[j].key)[1], SplitSpace(chains[j].key)[2])
              = chains[j].key

\* An order-2 machine over two different words, one a prefix of the other,
\* whose key a call has split.
C13_Witness ==
  /\ order = 2 /\ Len(words) = 2 /\ Len(words[1]) = 1
  /\ words[2] = words[1] \o words[1]
  /\ pc[Main] = "loop" /\ Len(out[Main]) = 1

\* C14: the word list is exactly the maximal runs of characters other than
\* space, carriage return and line feed, in their order; no word is empty
\* and none holds one of the three.
C14_TokensAreMaximalRuns ==
  /\ words = MaximalRuns(text)
  /\ \A i \in 1..Len(words) :
       /\ words[i] # <<>>
       /\ \A q \in 1..Len(words[i]) : NotWs(words[i][q])

\* A text that begins with a separator, ends with two and still has a word.
C14_Witness ==
  /\ Len(text) = MaxTextLen /\ Len(words) >= 1
  /\ ~NotWs(text[1])
  /\ ~NotWs(text[Len(text)]) /\ ~NotWs(text[Len(text) - 1])


\* C16: a run whose read or fetch failed, or whose method is unknown, has
\* reported one error, exited with status 1 and never called generateText;
\* generateText is called at most once, only once the text is delivered,
\* and once in every run whose read or fetch succeeded.
C16_CliFailureAndSuccess ==
  /\ cli.outcome \in {"ioerr", "badmethod"} =>
       cli.pc = "exited" /\ cli.exit = 1 /\ cli.errs = 1 /\ cli.gens = 0
  /\ cli.gens <= 1
  /\ cli.gens = 1 => cli.delivered /\ cli.outcome = "ok"
  /\ cli.outcome = "ok" => cli.gens = 1
  /\ cli.pc \in {"dispatch", "reading", "fetching"} => cli.gens = 0 /\ cli.exit = -1

\* A run whose fetch of the URL failed and that has exited.
C16_Witness ==
  cli.pc = "exited" /\ cli.method = "url" /\ cli.outcome = "ioerr" /\ cli.exit = 1

====
